---- MODULE Spec2Model ----
(***************************************************************************)
(* Button driver (drv_button.c) of the transponder board: six statically   *)
(* allocated button entities, looked up by name, registered with the       *)
(* button event-detection package, polled by drv_button_process.           *)
(*                                                                         *)
(* The detection package itself (button.h / button.c: Button_Create,       *)
(* Button_Attach, Button_Delete, Button_Process, Get_Button_State,         *)
(* Get_Button_Event) is not part of the driver sources; its operators here *)
(* follow the boundary the design document gives for it.                   *)
(***************************************************************************)
EXTENDS Naturals, Sequences, FiniteSets

\* ------------------------------------------------------------------ values

RT_NULL == "RT_NULL"
RT_EOK == "RT_EOK"
RT_ERROR == "-RT_ERROR"

BUTTON_COUNT == 6

\* the configured names, in the order drv_button_init creates them
KeyNames == <<"key1", "key2", "key3", "key4", "key5", "key6">>

\* the six static Button_t objects (their addresses)
Entities == {"key1_btn", "key2_btn", "key3_btn", "key4_btn", "key5_btn", "key6_btn"}

\* the pin each level source samples
PinOf(btn) ==
    CASE btn = "key1_btn" -> "PC4"
      [] btn = "key2_btn" -> "PB14"
      [] btn = "key3_btn" -> "PA0"
      [] btn = "key4_btn" -> "PA8"
      [] btn = "key5_btn" -> "PB7"
      [] btn = "key6_btn" -> "PA15"

\* the seven event kinds a callback can be attached to and the engine emits
EventKinds == {"BUTTON_DOWM", "BUTTON_UP", "BUTTON_DOUBLE", "BUTTON_LONG",
               "BUTTON_LONG_FREE", "BUTTON_CONTINUOS", "BUTTON_CONTINUOS_FREE"}
BUTTON_ALL_RIGGER == "BUTTON_ALL_RIGGER"
NONE_TRIGGER == "NONE_TRIGGER"

\* a static object before Button_Create ran on it: all fields zero
ZERO == "ZERO"

\* callbacks: the driver's logging callback, the test's, and a client's counter
\* (which may itself call the driver)
Callbacks == {"button_callback", "test_button_callback", "count_cb"}

\* ------------------------------------------------------------------ bounds

MaxEmits == 2
MaxAttach == 2

\* the names a caller passes: the configured ones, unknown ones, no name
NameArgs == {"key1", "key2", "key3", "key4", "key5", "key6", "key7", "invalid_key", RT_NULL}
\* the attach calls made while the buttons are polled: <<name, kind, callback>>
AttachCalls == {<<"key1", "BUTTON_DOWM", "count_cb">>,
                <<"key1", "BUTTON_DOWM", "test_button_callback">>,
                <<"key1", BUTTON_ALL_RIGGER, "test_button_callback">>,
                <<"key6", "BUTTON_DOWM", "count_cb">>,
                <<"key6", BUTTON_ALL_RIGGER, "test_button_callback">>}
\* the buttons somebody operates, and how; the level of the others stays at
\* the pull-up and the engine finds no transition on them
Operated == {"key1_btn", "key6_btn"}
EmitKinds(btn) == IF btn = "key1_btn" THEN EventKinds ELSE {"BUTTON_DOWM", "BUTTON_UP"}
EmitStates == {NONE_TRIGGER, "BUTTON_DOWM"}
\* what the board can do with the rt_pin_mode calls of drv_button_init: the
\* sets of pins whose configuration it does not carry out
PinFaults == {{}, {"PA15"}}

\* ------------------------------------------------------------------ state

VARIABLES
    registry,              \* the engine's registered entities, in order
    Name,                  \* btn->Name
    CallBack_Function,     \* btn->CallBack_Function[kind]
    Button_State,          \* btn->Button_State
    Button_Trigger_Event,  \* btn->Button_Trigger_Event
    pc,                    \* "idle", or "poll" inside drv_button_process
    idx,                   \* position of Button_Process in the registry
    running,               \* the callback executing now, or NoCall
    reads,                 \* pins sampled during the current / last poll
    emitted,               \* <<btn, kind>> emitted so far in the current poll
    invoked,               \* callbacks invoked so far in the current poll
    ret,                   \* the last API call and what it returned
    bound,                 \* by name: the bindings the successful attach calls left
    nemits,                \* transitions emitted so far
    nattach,               \* successful attach calls so far
    life,                  \* the last of drv_button_init / drv_button_deinit called
    writing,               \* the attach another thread is in the middle of, if any
    led_states,            \* drv_led.c: led_states[channel]
    current_rgb_color,     \* drv_led.c: current_rgb_color
    led_pin_mode,          \* the mode rt_pin_mode set on each LED pin last
    led_pin_level,         \* the level rt_pin_write wrote to each LED pin last
    led_ret,               \* the last LED call and what it returned
    led_set                \* by channel / colour: what the last set call left in force

vars == <<registry, Name, CallBack_Function, Button_State, Button_Trigger_Event,
          pc, idx, running, reads, emitted, invoked, ret, bound, nemits, nattach, life,
          writing, led_states, current_rgb_color, led_pin_mode, led_pin_level, led_ret, led_set>>

led_vars == <<led_states, current_rgb_color, led_pin_mode, led_pin_level, led_ret, led_set>>
button_vars == <<registry, Name, CallBack_Function, Button_State, Button_Trigger_Event,
                 pc, idx, running, reads, emitted, invoked, ret, bound, nemits, nattach,
                 life, writing>>

engine_vars == <<registry, Name, CallBack_Function, Button_State, Button_Trigger_Event>>
poll_vars == <<pc, idx, running, reads, emitted, invoked>>
budget_vars == <<nemits, nattach>>

NoCall == [btn |-> RT_NULL, kind |-> NONE_TRIGGER, cb |-> RT_NULL]
\* no attach is under way
NoWrite == <<>>
NoRet == [op |-> "none", name |-> RT_NULL, kind |-> NONE_TRIGGER, cb |-> RT_NULL,
          val |-> RT_NULL, again |-> FALSE, rejected |-> {}]

\* the engine's data as one value, for the operators below
Engine == [registry |-> registry, Name |-> Name, CallBack_Function |-> CallBack_Function,
           Button_State |-> Button_State, Button_Trigger_Event |-> Button_Trigger_Event]

SeqContains(s, x) == \E i \in 1..Len(s) : s[i] = x
SeqRemove(s, x) == SelectSeq(s, LAMBDA y : y # x)

\* ------------------------------------------------- the detection package

\* create(name, entity_storage, level_source_fn, trigger_level): a fresh entity
\* (no trigger, empty event table), a member of the registry once
\* create that registers the entity without looking whether it is registered
create_registers_again(e, name, btn) ==
    [e EXCEPT !.Name[btn] = name,
              !.Button_State[btn] = NONE_TRIGGER,
              !.Button_Trigger_Event[btn] = NONE_TRIGGER,
              !.CallBack_Function[btn] = [k \in EventKinds |-> RT_NULL],
              !.registry = Append(e.registry, btn)]

Button_Create(e, name, btn) ==
    [e EXCEPT !.Name[btn] = name,
              !.Button_State[btn] = NONE_TRIGGER,
              !.Button_Trigger_Event[btn] = NONE_TRIGGER,
              !.CallBack_Function[btn] = [k \in EventKinds |-> RT_NULL],
              !.registry = IF SeqContains(e.registry, btn) THEN e.registry
                           ELSE Append(e.registry, btn)]

\* attach(entity, event_kind, callback_fn): one slot, or every slot for the wildcard
Button_Attach(e, btn, btn_event, btn_callback) ==
    IF btn_event = BUTTON_ALL_RIGGER
    THEN [e EXCEPT !.CallBack_Function[btn] = [k \in EventKinds |-> btn_callback]]
    ELSE IF btn_event \in EventKinds
    THEN [e EXCEPT !.CallBack_Function[btn][btn_event] = btn_callback]
    ELSE e

\* the event kinds in the order of the event table
KindOrder == <<"BUTTON_DOWM", "BUTTON_UP", "BUTTON_DOUBLE", "BUTTON_LONG",
               "BUTTON_LONG_FREE", "BUTTON_CONTINUOS", "BUTTON_CONTINUOS_FREE">>

\* attach that empties a slot before it stores the callback in it
attach_stores_clear_first(btn_event, btn_callback) ==
    IF btn_event = BUTTON_ALL_RIGGER
    THEN [i \in 1..(2 * Len(KindOrder)) |->
             <<KindOrder[(i + 1) \div 2], IF i % 2 = 1 THEN RT_NULL ELSE btn_callback>>]
    ELSE IF btn_event \in EventKinds
    THEN << <<btn_event, RT_NULL>>, <<btn_event, btn_callback>> >>
    ELSE <<>>

\* attach as the stores it is made of, <<kind, value>> in the order they are
\* made: each a store of one word into one slot of the event table
Button_Attach_Stores(btn_event, btn_callback) ==
    IF btn_event = BUTTON_ALL_RIGGER
    THEN [i \in 1..Len(KindOrder) |-> <<KindOrder[i], btn_callback>>]
    ELSE IF btn_event \in EventKinds
    THEN << <<btn_event, btn_callback>> >>
    ELSE <<>>

\* delete(entity): the entity leaves the registry; its storage is left as it is
Button_Delete(e, btn) ==
    [e EXCEPT !.registry = SeqRemove(e.registry, btn)]

Get_Button_State(e, btn) == e.Button_State[btn]

Get_Button_Event(e, btn) == e.Button_Trigger_Event[btn]

\* ------------------------------------------------------------ the driver

\* variants of drv_button_get_handle with a slip in them
\* the last branch returns the fifth object
get_handle_key6_as_key5(key_name) ==
    IF key_name = RT_NULL THEN RT_NULL
    ELSE IF key_name = "key1" THEN "key1_btn"
    ELSE IF key_name = "key2" THEN "key2_btn"
    ELSE IF key_name = "key3" THEN "key3_btn"
    ELSE IF key_name = "key4" THEN "key4_btn"
    ELSE IF key_name = "key5" THEN "key5_btn"
    ELSE IF key_name = "key6" THEN "key5_btn"
    ELSE RT_NULL

\* the last name is not compared: every other name gets the sixth object
get_handle_last_unchecked(key_name) ==
    IF key_name = RT_NULL THEN RT_NULL
    ELSE IF key_name = "key1" THEN "key1_btn"
    ELSE IF key_name = "key2" THEN "key2_btn"
    ELSE IF key_name = "key3" THEN "key3_btn"
    ELSE IF key_name = "key4" THEN "key4_btn"
    ELSE IF key_name = "key5" THEN "key5_btn"
    ELSE "key6_btn"

drv_button_get_handle(key_name) ==
    IF key_name = RT_NULL THEN RT_NULL
    ELSE IF key_name = "key1" THEN "key1_btn"
    ELSE IF key_name = "key2" THEN "key2_btn"
    ELSE IF key_name = "key3" THEN "key3_btn"
    ELSE IF key_name = "key4" THEN "key4_btn"
    ELSE IF key_name = "key5" THEN "key5_btn"
    ELSE IF key_name = "key6" THEN "key6_btn"
    ELSE RT_NULL

\* the six Button_Create calls, then the six Button_Attach calls
\* drv_button_init with the second create given the first object
init_second_create_on_first(e) ==
    LET c1 == Button_Create(e, "key1", "key1_btn")
        c2 == Button_Create(c1, "key2", "key1_btn")
        c3 == Button_Create(c2, "key3", "key3_btn")
        c4 == Button_Create(c3, "key4", "key4_btn")
        c5 == Button_Create(c4, "key5", "key5_btn")
        c6 == Button_Create(c5, "key6", "key6_btn")
        a1 == Button_Attach(c6, "key1_btn", BUTTON_ALL_RIGGER, "button_callback")
        a2 == Button_Attach(a1, "key2_btn", BUTTON_ALL_RIGGER, "button_callback")
        a3 == Button_Attach(a2, "key3_btn", BUTTON_ALL_RIGGER, "button_callback")
        a4 == Button_Attach(a3, "key4_btn", BUTTON_ALL_RIGGER, "button_callback")
        a5 == Button_Attach(a4, "key5_btn", BUTTON_ALL_RIGGER, "button_callback")
        a6 == Button_Attach(a5, "key6_btn", BUTTON_ALL_RIGGER, "button_callback")
    IN  [eng |-> a6, val |-> RT_EOK]

\* drv_button_init creating the sixth button first and the first one last
init_creates_key6_first(e) ==
    LET c1 == Button_Create(e, "key6", "key6_btn")
        c2 == Button_Create(c1, "key2", "key2_btn")
        c3 == Button_Create(c2, "key3", "key3_btn")
        c4 == Button_Create(c3, "key4", "key4_btn")
        c5 == Button_Create(c4, "key5", "key5_btn")
        c6 == Button_Create(c5, "key1", "key1_btn")
        a1 == Button_Attach(c6, "key1_btn", BUTTON_ALL_RIGGER, "button_callback")
        a2 == Button_Attach(a1, "key2_btn", BUTTON_ALL_RIGGER, "button_callback")
        a3 == Button_Attach(a2, "key3_btn", BUTTON_ALL_RIGGER, "button_callback")
        a4 == Button_Attach(a3, "key4_btn", BUTTON_ALL_RIGGER, "button_callback")
        a5 == Button_Attach(a4, "key5_btn", BUTTON_ALL_RIGGER, "button_callback")
        a6 == Button_Attach(a5, "key6_btn", BUTTON_ALL_RIGGER, "button_callback")
    IN  [eng |-> a6, val |-> RT_EOK]

\* drv_button_init without the attach for the sixth button
init_key6_not_attached(e) ==
    LET c1 == Button_Create(e, "key1", "key1_btn")
        c2 == Button_Create(c1, "key2", "key2_btn")
        c3 == Button_Create(c2, "key3", "key3_btn")
        c4 == Button_Create(c3, "key4", "key4_btn")
        c5 == Button_Create(c4, "key5", "key5_btn")
        c6 == Button_Create(c5, "key6", "key6_btn")
        a1 == Button_Attach(c6, "key1_btn", BUTTON_ALL_RIGGER, "button_callback")
        a2 == Button_Attach(a1, "key2_btn", BUTTON_ALL_RIGGER, "button_callback")
        a3 == Button_Attach(a2, "key3_btn", BUTTON_ALL_RIGGER, "button_callback")
        a4 == Button_Attach(a3, "key4_btn", BUTTON_ALL_RIGGER, "button_callback")
        a5 == Button_Attach(a4, "key5_btn", BUTTON_ALL_RIGGER, "button_callback")
    IN  [eng |-> a5, val |-> RT_EOK]

drv_button_init(e) ==
    LET c1 == Button_Create(e, "key1", "key1_btn")
        c2 == Button_Create(c1, "key2", "key2_btn")
        c3 == Button_Create(c2, "key3", "key3_btn")
        c4 == Button_Create(c3, "key4", "key4_btn")
        c5 == Button_Create(c4, "key5", "key5_btn")
        c6 == Button_Create(c5, "key6", "key6_btn")
        a1 == Button_Attach(c6, "key1_btn", BUTTON_ALL_RIGGER, "button_callback")
        a2 == Button_Attach(a1, "key2_btn", BUTTON_ALL_RIGGER, "button_callback")
        a3 == Button_Attach(a2, "key3_btn", BUTTON_ALL_RIGGER, "button_callback")
        a4 == Button_Attach(a3, "key4_btn", BUTTON_ALL_RIGGER, "button_callback")
        a5 == Button_Attach(a4, "key5_btn", BUTTON_ALL_RIGGER, "button_callback")
        a6 == Button_Attach(a5, "key6_btn", BUTTON_ALL_RIGGER, "button_callback")
    IN  [eng |-> a6, val |-> RT_EOK]

\* drv_button_deinit without the delete of the sixth entity
deinit_five_deleted(e) ==
    LET d1 == Button_Delete(e, "key1_btn")
        d2 == Button_Delete(d1, "key2_btn")
        d3 == Button_Delete(d2, "key3_btn")
        d4 == Button_Delete(d3, "key4_btn")
        d5 == Button_Delete(d4, "key5_btn")
    IN  [eng |-> d5, val |-> RT_EOK]

\* drv_button_deinit deleting the first entity only
deinit_only_first_deleted(e) ==
    [eng |-> Button_Delete(e, "key1_btn"), val |-> RT_EOK]

drv_button_deinit(e) ==
    LET d1 == Button_Delete(e, "key1_btn")
        d2 == Button_Delete(d1, "key2_btn")
        d3 == Button_Delete(d2, "key3_btn")
        d4 == Button_Delete(d3, "key4_btn")
        d5 == Button_Delete(d4, "key5_btn")
        d6 == Button_Delete(d5, "key6_btn")
    IN  [eng |-> d6, val |-> RT_EOK]

drv_button_get_state(e, key_name) ==
    LET btn == drv_button_get_handle(key_name)
    IN  IF btn # RT_NULL THEN Get_Button_State(e, btn) ELSE NONE_TRIGGER

\* drv_button_get_event reading the state instead of the event
get_event_reads_state(e, key_name) ==
    LET btn == drv_button_get_handle(key_name)
    IN  IF btn # RT_NULL THEN Get_Button_State(e, btn) ELSE NONE_TRIGGER

\* drv_button_get_event reading the first button whatever the name
get_event_first_button(e, key_name) ==
    LET btn == drv_button_get_handle(key_name)
    IN  IF btn # RT_NULL THEN Get_Button_Event(e, "key1_btn") ELSE NONE_TRIGGER

drv_button_get_event(e, key_name) ==
    LET btn == drv_button_get_handle(key_name)
    IN  IF btn # RT_NULL THEN Get_Button_Event(e, btn) ELSE NONE_TRIGGER

\* variants of drv_button_attach_callback with a slip in them
\* returns success without forwarding the request to the engine
attach_callback_not_forwarded(e, key_name, event, callback) ==
    LET btn == drv_button_get_handle(key_name)
    IN  IF btn # RT_NULL /\ callback # RT_NULL
        THEN [eng |-> e, val |-> RT_EOK]
        ELSE [eng |-> e, val |-> RT_ERROR]

\* forwards the request only while the slot is still empty
attach_callback_keep_first(e, key_name, event, callback) ==
    LET btn == drv_button_get_handle(key_name)
    IN  IF btn # RT_NULL /\ callback # RT_NULL
        THEN [eng |-> IF event \in EventKinds /\ e.CallBack_Function[btn][event] # RT_NULL
                      THEN e ELSE Button_Attach(e, btn, event, callback),
              val |-> RT_EOK]
        ELSE [eng |-> e, val |-> RT_ERROR]

\* forwards the wildcard as the first kind
attach_callback_wildcard_as_first(e, key_name, event, callback) ==
    LET btn == drv_button_get_handle(key_name)
        kind == IF event = BUTTON_ALL_RIGGER THEN "BUTTON_DOWM" ELSE event
    IN  IF btn # RT_NULL /\ callback # RT_NULL
        THEN [eng |-> Button_Attach(e, btn, kind, callback), val |-> RT_EOK]
        ELSE [eng |-> e, val |-> RT_ERROR]

\* forwards every request as a wildcard request
attach_callback_always_wildcard(e, key_name, event, callback) ==
    LET btn == drv_button_get_handle(key_name)
    IN  IF btn # RT_NULL /\ callback # RT_NULL
        THEN [eng |-> Button_Attach(e, btn, BUTTON_ALL_RIGGER, callback), val |-> RT_EOK]
        ELSE [eng |-> e, val |-> RT_ERROR]

\* checks that either argument is given, not both
attach_callback_either_given(e, key_name, event, callback) ==
    LET btn == drv_button_get_handle(key_name)
    IN  IF btn # RT_NULL \/ callback # RT_NULL
        THEN [eng |-> Button_Attach(e, btn, event, callback), val |-> RT_EOK]
        ELSE [eng |-> e, val |-> RT_ERROR]

\* creates the entity again before it attaches
attach_callback_recreates(e, key_name, event, callback) ==
    LET btn == drv_button_get_handle(key_name)
    IN  IF btn # RT_NULL /\ callback # RT_NULL
        THEN [eng |-> Button_Attach(Button_Create(e, key_name, btn), btn, event, callback),
              val |-> RT_EOK]
        ELSE [eng |-> e, val |-> RT_ERROR]

\* clears the entity's pending event when it attaches
attach_callback_resets_trigger(e, key_name, event, callback) ==
    LET btn == drv_button_get_handle(key_name)
    IN  IF btn # RT_NULL /\ callback # RT_NULL
        THEN [eng |-> [Button_Attach(e, btn, event, callback)
                          EXCEPT !.Button_Trigger_Event[btn] = NONE_TRIGGER],
              val |-> RT_EOK]
        ELSE [eng |-> e, val |-> RT_ERROR]

\* registers the entity with the engine when it is not registered
attach_callback_registers(e, key_name, event, callback) ==
    LET btn == drv_button_get_handle(key_name)
    IN  IF btn # RT_NULL /\ callback # RT_NULL
        THEN [eng |-> [Button_Attach(e, btn, event, callback)
                          EXCEPT !.registry = IF SeqContains(e.registry, btn) THEN e.registry
                                              ELSE Append(e.registry, btn)],
              val |-> RT_EOK]
        ELSE [eng |-> e, val |-> RT_ERROR]

\* attach that refuses a button the engine does not have registered
attach_callback_registered_only(e, key_name, event, callback) ==
    LET btn == drv_button_get_handle(key_name)
    IN  IF btn # RT_NULL /\ callback # RT_NULL /\ SeqContains(e.registry, btn)
        THEN [eng |-> Button_Attach(e, btn, event, callback), val |-> RT_EOK]
        ELSE [eng |-> e, val |-> RT_ERROR]

\* attach that binds the release along with the press
attach_callback_press_and_release(e, key_name, event, callback) ==
    LET btn == drv_button_get_handle(key_name)
    IN  IF btn # RT_NULL /\ callback # RT_NULL
        THEN [eng |-> IF event = "BUTTON_DOWM"
                      THEN Button_Attach(Button_Attach(e, btn, event, callback),
                                         btn, "BUTTON_UP", callback)
                      ELSE Button_Attach(e, btn, event, callback),
              val |-> RT_EOK]
        ELSE [eng |-> e, val |-> RT_ERROR]

\* attach that validates the event kind
attach_callback_kind_checked(e, key_name, event, callback) ==
    LET btn == drv_button_get_handle(key_name)
    IN  IF btn # RT_NULL /\ callback # RT_NULL
           /\ event \in EventKinds \cup {BUTTON_ALL_RIGGER}
        THEN [eng |-> Button_Attach(e, btn, event, callback), val |-> RT_EOK]
        ELSE [eng |-> e, val |-> RT_ERROR]

drv_button_attach_callback(e, key_name, event, callback) ==
    LET btn == drv_button_get_handle(key_name)
    IN  IF btn # RT_NULL /\ callback # RT_NULL
        THEN [eng |-> Button_Attach(e, btn, event, callback), val |-> RT_EOK]
        ELSE [eng |-> e, val |-> RT_ERROR]

\* the engine's data written back to the variables
SetEngine(e) ==
    /\ registry' = e.registry
    /\ Name' = e.Name
    /\ CallBack_Function' = e.CallBack_Function
    /\ Button_State' = e.Button_State
    /\ Button_Trigger_Event' = e.Button_Trigger_Event

\* ------------------------------------------------------ the poll, by step

\* the values Get_Button_State is documented to return
StateValues == {NONE_TRIGGER, "BUTTON_DOWM", "BUTTON_UP", "BUTTON_DOUBLE", "BUTTON_LONG"}

\* the engine records a transition of btn: the event kind and its new state
Button_Emit(e, btn, kind, state) ==
    [e EXCEPT !.Button_Trigger_Event[btn] = kind, !.Button_State[btn] = state]

\* the callback the engine calls for a transition, RT_NULL when none is attached
Button_Dispatch(e, btn, kind) == e.CallBack_Function[btn][kind]

\* the pins of the entities at positions from..to of the registry
PinsRead(from, to) == [i \in 1..(to + 1 - from) |-> PinOf(registry[from + i - 1])]

\* callbacks that use the driver's API while they run
ApiCallbacks == {"count_cb"}

\* an API call is made from the main context, or from inside a client callback
MayCall == pc = "idle" \/ running.cb \in ApiCallbacks

\* ------------------------------------------------- the binding, by name

\* the callback a name's kind was bound to by attach, "none" when by no attach
BoundCb(b, name, kind) ==
    IF \E r \in b : r.name = name /\ r.kind = kind
    THEN (CHOOSE r \in b : r.name = name /\ r.kind = kind).cb
    ELSE "none"

\* the bindings in force after one more successful attach, made at position
\* `at` of a poll (0 outside a poll); prev is the callback the attach replaced
Rebind(b, name, kind, cb, at) ==
    LET kinds == IF kind = BUTTON_ALL_RIGGER THEN EventKinds ELSE {kind}
    IN  {r \in b : ~(r.name = name /\ r.kind \in kinds)}
        \cup {[name |-> name, kind |-> k, cb |-> cb, wild |-> (kind = BUTTON_ALL_RIGGER),
               prev |-> BoundCb(b, name, k), at |-> at] : k \in kinds}

\* a poll is over: no binding was made during the next one
NewTick(b) == {[r EXCEPT !.at = 0] : r \in b}

\* ------------------------------------------------- the LED driver (drv_led.c)

RT_EINVAL == "-RT_EINVAL"

\* led_channel_t
LED_RED == 0
LED_GREEN == 1
LED_BLUE == 2
LED_CHANNEL_MAX == 3

\* led_state_t
LED_OFF == 0
LED_ON == 1

\* the LED is wired common-anode: the low level lights it
PIN_LOW == "PIN_LOW"
PIN_HIGH == "PIN_HIGH"
LED_ON_LEVEL == PIN_LOW
LED_OFF_LEVEL == PIN_HIGH
PIN_MODE_OUTPUT_OD == "PIN_MODE_OUTPUT_OD"

\* a pin nobody configured or wrote yet
PIN_RESET == "PIN_RESET"

\* the valid channels, the indices of led_pins and led_states
Channels == 0..(LED_CHANNEL_MAX - 1)

\* the channel, state and colour arguments callers pass; a colour component
\* is a byte, and these are the bytes tried
ChannelArgs == {LED_RED, LED_GREEN, LED_BLUE, LED_CHANNEL_MAX, 4, 255}
StateArgs == {LED_OFF, LED_ON}
ColourLevels == {0, 1, 128, 255}
Colours == [red : ColourLevels, green : ColourLevels, blue : ColourLevels]

RGB(r, g, b) == [red |-> r, green |-> g, blue |-> b]

\* a pointer to a colour: <<>> is RT_NULL, <<c>> the address of storage holding c
NullColor == <<>>
ColorPtrs == {NullColor} \cup {<<c>> : c \in Colours}
RGB_COLOR_BLACK == RGB(0, 0, 0)
RGB_COLOR_WHITE == RGB(255, 255, 255)
RGB_COLOR_RED == RGB(255, 0, 0)
RGB_COLOR_GREEN == RGB(0, 255, 0)
RGB_COLOR_BLUE == RGB(0, 0, 255)
RGB_COLOR_YELLOW == RGB(255, 255, 0)
RGB_COLOR_MAGENTA == RGB(255, 0, 255)
RGB_COLOR_CYAN == RGB(0, 255, 255)

\* the LED driver's data as one value, for the operators below
Led == [led_states |-> led_states, current_rgb_color |-> current_rgb_color,
        led_pin_mode |-> led_pin_mode, led_pin_level |-> led_pin_level]

led_channel_is_valid(channel) == channel < LED_CHANNEL_MAX

\* led_set_hardware_state driving the pin as if the high level lit the LED
led_set_hardware_active_high(l, channel, state) ==
    IF ~led_channel_is_valid(channel) THEN l
    ELSE [l EXCEPT !.led_pin_level[channel] = IF state = LED_ON THEN PIN_HIGH
                                              ELSE PIN_LOW,
                   !.led_states[channel] = state]

led_set_hardware_state(l, channel, state) ==
    IF ~led_channel_is_valid(channel) THEN l
    ELSE [l EXCEPT !.led_pin_level[channel] = IF state = LED_ON THEN LED_ON_LEVEL
                                              ELSE LED_OFF_LEVEL,
                   !.led_states[channel] = state]

drv_led_init(l) ==
    [led |-> [led_states |-> [i \in Channels |-> LED_OFF],
              current_rgb_color |-> RGB(0, 0, 0),
              led_pin_mode |-> [i \in Channels |-> PIN_MODE_OUTPUT_OD],
              led_pin_level |-> [i \in Channels |-> LED_OFF_LEVEL]],
     val |-> RT_EOK]

\* drv_led_set_state without the check of the channel
led_set_state_unchecked(l, channel, state) ==
    LET h == led_set_hardware_state(l, channel, state)
        c == IF state = LED_ON THEN 255 ELSE 0
    IN  [led |-> CASE channel = LED_RED -> [h EXCEPT !.current_rgb_color.red = c]
                   [] channel = LED_GREEN -> [h EXCEPT !.current_rgb_color.green = c]
                   [] channel = LED_BLUE -> [h EXCEPT !.current_rgb_color.blue = c]
                   [] OTHER -> h,
         val |-> RT_EOK]

\* drv_led_set_state driving the pin of the channel after the one asked for
led_set_state_next_channel(l, channel, state) ==
    IF ~led_channel_is_valid(channel) THEN [led |-> l, val |-> RT_EINVAL]
    ELSE LET h == led_set_hardware_state(l, (channel + 1) % LED_CHANNEL_MAX, state)
             c == IF state = LED_ON THEN 255 ELSE 0
         IN  [led |-> CASE channel = LED_RED -> [h EXCEPT !.current_rgb_color.red = c]
                        [] channel = LED_GREEN -> [h EXCEPT !.current_rgb_color.green = c]
                        [] channel = LED_BLUE -> [h EXCEPT !.current_rgb_color.blue = c]
                        [] OTHER -> h,
              val |-> RT_EOK]

\* drv_led_set_state leaving the stored colour as it was
led_set_state_keeps_colour(l, channel, state) ==
    IF ~led_channel_is_valid(channel) THEN [led |-> l, val |-> RT_EINVAL]
    ELSE [led |-> led_set_hardware_state(l, channel, state), val |-> RT_EOK]

drv_led_set_state(l, channel, state) ==
    IF ~led_channel_is_valid(channel) THEN [led |-> l, val |-> RT_EINVAL]
    ELSE LET h == led_set_hardware_state(l, channel, state)
             c == IF state = LED_ON THEN 255 ELSE 0
         IN  [led |-> CASE channel = LED_RED -> [h EXCEPT !.current_rgb_color.red = c]
                        [] channel = LED_GREEN -> [h EXCEPT !.current_rgb_color.green = c]
                        [] channel = LED_BLUE -> [h EXCEPT !.current_rgb_color.blue = c]
                        [] OTHER -> h,
              val |-> RT_EOK]

drv_led_get_state(l, channel) ==
    IF ~led_channel_is_valid(channel) THEN LED_OFF ELSE l.led_states[channel]

\* drv_led_set_rgb_color storing the colour it shows instead of the one given
led_set_rgb_color_normalised(l, color) ==
    IF color = NullColor THEN [led |-> l, val |-> RT_EINVAL]
    ELSE LET c == color[1]
             r == led_set_hardware_state(l, LED_RED, IF c.red > 0 THEN LED_ON ELSE LED_OFF)
             g == led_set_hardware_state(r, LED_GREEN, IF c.green > 0 THEN LED_ON ELSE LED_OFF)
             b == led_set_hardware_state(g, LED_BLUE, IF c.blue > 0 THEN LED_ON ELSE LED_OFF)
         IN  [led |-> [b EXCEPT !.current_rgb_color =
                          RGB(IF c.red > 0 THEN 255 ELSE 0,
                              IF c.green > 0 THEN 255 ELSE 0,
                              IF c.blue > 0 THEN 255 ELSE 0)],
              val |-> RT_EOK]

drv_led_set_rgb_color(l, color) ==
    IF color = NullColor THEN [led |-> l, val |-> RT_EINVAL]
    ELSE LET c == color[1]
             r == led_set_hardware_state(l, LED_RED, IF c.red > 0 THEN LED_ON ELSE LED_OFF)
             g == led_set_hardware_state(r, LED_GREEN, IF c.green > 0 THEN LED_ON ELSE LED_OFF)
             b == led_set_hardware_state(g, LED_BLUE, IF c.blue > 0 THEN LED_ON ELSE LED_OFF)
         IN  [led |-> [b EXCEPT !.current_rgb_color = c], val |-> RT_EOK]

\* drv_led_get_rgb_color without the check of the pointer
led_get_rgb_color_unchecked(l, color) ==
    [led |-> l, val |-> RT_EOK, out |-> IF color = NullColor THEN NullColor
                                        ELSE <<l.current_rgb_color>>]

\* color is the pointer given; out is the storage it points to after the call
drv_led_get_rgb_color(l, color) ==
    IF color = NullColor THEN [led |-> l, val |-> RT_EINVAL, out |-> color]
    ELSE [led |-> l, val |-> RT_EOK, out |-> <<l.current_rgb_color>>]

drv_led_all_off(l) == drv_led_set_rgb_color(l, <<RGB_COLOR_BLACK>>)

drv_led_all_on(l) == drv_led_set_rgb_color(l, <<RGB_COLOR_WHITE>>)

drv_led_set_red(l) == drv_led_set_rgb_color(l, <<RGB_COLOR_RED>>)

drv_led_set_green(l) == drv_led_set_rgb_color(l, <<RGB_COLOR_GREEN>>)

drv_led_set_blue(l) == drv_led_set_rgb_color(l, <<RGB_COLOR_BLUE>>)

drv_led_set_yellow(l) == drv_led_set_rgb_color(l, <<RGB_COLOR_YELLOW>>)

\* drv_led_set_magenta with the colour of the preset after it
led_set_magenta_as_cyan(l) == drv_led_set_rgb_color(l, <<RGB_COLOR_CYAN>>)

drv_led_set_magenta(l) == drv_led_set_rgb_color(l, <<RGB_COLOR_MAGENTA>>)

drv_led_set_cyan(l) == drv_led_set_rgb_color(l, <<RGB_COLOR_CYAN>>)

drv_led_deinit(l) == [led |-> drv_led_all_off(l).led, val |-> RT_EOK]

\* the statics at program start, the pins as the reset left them
ZeroLed ==
    [led_states |-> [i \in Channels |-> LED_OFF],
     current_rgb_color |-> RGB(0, 0, 0),
     led_pin_mode |-> [i \in Channels |-> PIN_RESET],
     led_pin_level |-> [i \in Channels |-> PIN_RESET]]

NoLedRet == [op |-> "none", channel |-> LED_CHANNEL_MAX, state |-> LED_OFF,
             color |-> NullColor, val |-> RT_NULL, out |-> NullColor]

\* what the last successful drv_led_set_state left in force on each channel
\* (<<s>>, or <<>> once something else wrote the channel), and the colour the
\* last successful drv_led_set_rgb_color left in force (<<c>>, or <<>>)
NoneSet == [states |-> [i \in Channels |-> <<>>], color |-> <<>>]

InitLed ==
    /\ led_states = ZeroLed.led_states
    /\ current_rgb_color = ZeroLed.current_rgb_color
    /\ led_pin_mode = ZeroLed.led_pin_mode
    /\ led_pin_level = ZeroLed.led_pin_level
    /\ led_ret = NoLedRet
    /\ led_set = NoneSet

SetLed(l) ==
    /\ led_states' = l.led_states
    /\ current_rgb_color' = l.current_rgb_color
    /\ led_pin_mode' = l.led_pin_mode
    /\ led_pin_level' = l.led_pin_level

\* ---------------------------------------------------------------- actions

\* the statics at program start: zeroed storage, nothing registered
ZeroEngine ==
    [registry |-> <<>>,
     Name |-> [b \in Entities |-> ZERO],
     CallBack_Function |-> [b \in Entities |-> [k \in EventKinds |-> RT_NULL]],
     Button_State |-> [b \in Entities |-> ZERO],
     Button_Trigger_Event |-> [b \in Entities |-> ZERO]]

InitEngine(e) ==
    /\ registry = e.registry
    /\ Name = e.Name
    /\ CallBack_Function = e.CallBack_Function
    /\ Button_State = e.Button_State
    /\ Button_Trigger_Event = e.Button_Trigger_Event

InitRest ==
    /\ pc = "idle"
    /\ idx = 0
    /\ running = NoCall
    /\ reads = <<>>
    /\ emitted = <<>>
    /\ invoked = <<>>
    /\ ret = NoRet
    /\ bound = {}
    /\ nemits = 0
    /\ nattach = 0

Init == InitEngine(ZeroEngine) /\ InitRest /\ InitLed /\ life = "none" /\ writing = NoWrite

\* rt_pin_mode returns nothing to drv_button_init: what the board did with the
\* six calls (rejected) has no way into the value returned
DrvButtonInit ==
    /\ pc = "idle"
    /\ \E rejected \in PinFaults :
          LET r == drv_button_init(Engine)
          IN  /\ SetEngine(r.eng)
              /\ ret' = [NoRet EXCEPT !.op = "init", !.val = r.val,
                                      !.again = (ret.op = "init"), !.rejected = rejected]
    /\ bound' = {}
    /\ UNCHANGED <<poll_vars, budget_vars>>
    /\ life' = "init"
    /\ UNCHANGED writing
    /\ UNCHANGED led_vars

DrvButtonDeinit ==
    /\ pc = "idle"
    /\ LET r == drv_button_deinit(Engine)
       IN  /\ SetEngine(r.eng)
           /\ ret' = [NoRet EXCEPT !.op = "deinit", !.val = r.val,
                                   !.again = (ret.op = "deinit")]
    /\ bound' = {}
    /\ UNCHANGED <<poll_vars, budget_vars>>
    /\ life' = "deinit"
    /\ UNCHANGED writing
    /\ UNCHANGED led_vars

\* one call of drv_button_attach_callback with the given arguments
AttachCall(name, kind, cb) ==
    LET r == drv_button_attach_callback(Engine, name, kind, cb)
    IN  /\ SetEngine(r.eng)
        /\ ret' = [op |-> "attach", name |-> name, kind |-> kind, cb |-> cb, val |-> r.val,
                   again |-> FALSE, rejected |-> {}]
        /\ bound' = IF r.val = RT_EOK
                     THEN Rebind(bound, name, kind, cb, IF pc = "poll" THEN idx ELSE 0)
                     ELSE bound
        /\ nattach' = IF r.val = RT_EOK THEN nattach + 1 ELSE nattach

DrvButtonAttachCallback ==
    /\ MayCall
    /\ nattach < MaxAttach
    /\ \E c \in AttachCalls : AttachCall(c[1], c[2], c[3])
    /\ UNCHANGED <<poll_vars, nemits>>
    /\ UNCHANGED <<life, writing>>
    /\ UNCHANGED led_vars

\* drv_button_process is called: Button_Process starts at the head of the registry
DrvButtonProcess ==
    /\ pc = "idle"
    /\ reads' = <<>>
    /\ emitted' = <<>>
    /\ invoked' = <<>>
    /\ running' = NoCall
    /\ ret' = [NoRet EXCEPT !.op = "process"]
    /\ IF registry = <<>>
       THEN pc' = "idle" /\ idx' = 0
       ELSE pc' = "poll" /\ idx' = 1
    /\ UNCHANGED <<engine_vars, bound, budget_vars>>
    /\ UNCHANGED <<life, writing>>
    /\ UNCHANGED led_vars

\* Button_Process goes on to the next entity with a transition: the entities
\* before it are sampled and found quiet; the engine records the transition
\* and calls the callback attached to its kind
CycleEmit ==
    /\ pc = "poll" /\ running = NoCall
    /\ nemits < MaxEmits
    /\ \E j \in idx..Len(registry) :
          /\ registry[j] \in Operated
          /\ \E kind \in EmitKinds(registry[j]), state \in EmitStates :
                LET btn == registry[j]
                    e == Button_Emit(Engine, btn, kind, state)
                    cb == Button_Dispatch(e, btn, kind)
                IN  /\ SetEngine(e)
                    /\ reads' = reads \o PinsRead(idx, j)
                    /\ emitted' = Append(emitted, <<btn, kind>>)
                    /\ IF cb = RT_NULL
                       THEN /\ idx' = j + 1
                            /\ UNCHANGED <<running, invoked>>
                       ELSE /\ idx' = j
                            /\ running' = [btn |-> btn, kind |-> kind, cb |-> cb]
                            /\ invoked' = Append(invoked,
                                   [btn |-> btn, kind |-> kind, cb |-> cb,
                                    seen |-> Get_Button_Event(e, btn)])
    /\ nemits' = nemits + 1
    /\ ret' = NoRet
    /\ UNCHANGED <<pc, bound, nattach>>
    /\ UNCHANGED <<life, writing>>
    /\ UNCHANGED led_vars

\* the running callback returns to the engine
CallbackReturn ==
    /\ running # NoCall
    /\ running' = NoCall
    /\ idx' = idx + 1
    /\ ret' = NoRet
    /\ UNCHANGED <<engine_vars, pc, reads, emitted, invoked, bound, budget_vars>>
    /\ UNCHANGED <<life, writing>>
    /\ UNCHANGED led_vars

\* the remaining entities are sampled and found quiet; the poll returns
CycleRest ==
    /\ pc = "poll" /\ running = NoCall
    /\ reads' = reads \o PinsRead(idx, Len(registry))
    /\ pc' = "idle"
    /\ idx' = 0
    /\ emitted' = <<>>
    /\ invoked' = <<>>
    /\ bound' = NewTick(bound)
    /\ ret' = NoRet
    /\ UNCHANGED <<engine_vars, running, budget_vars>>
    /\ UNCHANGED <<life, writing>>
    /\ UNCHANGED led_vars

\* ------------------------------------------- calls on a given driver state

DrvButtonGetHandle ==
    /\ MayCall
    /\ \E name \in NameArgs :
          ret' = [NoRet EXCEPT !.op = "get_handle", !.name = name,
                               !.val = drv_button_get_handle(name)]
    /\ UNCHANGED <<engine_vars, poll_vars, bound, budget_vars>>
    /\ UNCHANGED <<life, writing>>
    /\ UNCHANGED led_vars

DrvButtonGetState ==
    /\ MayCall
    /\ \E name \in NameArgs :
          ret' = [NoRet EXCEPT !.op = "get_state", !.name = name,
                               !.val = drv_button_get_state(Engine, name)]
    /\ UNCHANGED <<engine_vars, poll_vars, bound, budget_vars>>
    /\ UNCHANGED <<life, writing>>
    /\ UNCHANGED led_vars

\* drv_button_get_event consuming the event it reads
get_event_consumes ==
    /\ MayCall
    /\ \E name \in NameArgs :
          LET btn == drv_button_get_handle(name)
          IN  /\ ret' = [NoRet EXCEPT !.op = "get_event", !.name = name,
                                      !.val = drv_button_get_event(Engine, name)]
              /\ Button_Trigger_Event' =
                    IF btn # RT_NULL THEN [Button_Trigger_Event EXCEPT ![btn] = NONE_TRIGGER]
                    ELSE Button_Trigger_Event
    /\ UNCHANGED <<registry, Name, CallBack_Function, Button_State, poll_vars, bound,
                   budget_vars>>
    /\ UNCHANGED <<life, writing>>
    /\ UNCHANGED led_vars

DrvButtonGetEvent ==
    /\ MayCall
    /\ \E name \in NameArgs :
          ret' = [NoRet EXCEPT !.op = "get_event", !.name = name,
                               !.val = drv_button_get_event(Engine, name)]
    /\ UNCHANGED <<engine_vars, poll_vars, bound, budget_vars>>
    /\ UNCHANGED <<life, writing>>
    /\ UNCHANGED led_vars

\* an attach call with an unknown or missing name, or without a callback
DrvButtonAttachBadArgs ==
    /\ MayCall
    /\ \E name \in NameArgs, kind \in EventKinds \cup {BUTTON_ALL_RIGGER, NONE_TRIGGER},
          cb \in Callbacks \cup {RT_NULL} :
          /\ name \notin {KeyNames[i] : i \in 1..BUTTON_COUNT} \/ cb = RT_NULL
          /\ AttachCall(name, kind, cb)
    /\ UNCHANGED <<poll_vars, nemits>>
    /\ UNCHANGED <<life, writing>>
    /\ UNCHANGED led_vars

\* an attach call with a configured name and a callback, for any value of the
\* event argument
DrvButtonAttachAnyKind ==
    /\ MayCall
    /\ \E i \in 1..BUTTON_COUNT, kind \in EventKinds \cup {BUTTON_ALL_RIGGER, NONE_TRIGGER},
          cb \in Callbacks :
          AttachCall(KeyNames[i], kind, cb)
    /\ UNCHANGED <<poll_vars, nemits>>
    /\ UNCHANGED <<life, writing>>
    /\ UNCHANGED led_vars

\* driver states the calls are made in: before init, after init, after
\* deinit, and after init with a transition recorded on one entity
ArgEngines ==
    LET inited == drv_button_init(ZeroEngine).eng
    IN  {ZeroEngine, inited, drv_button_deinit(inited).eng}
        \cup {Button_Emit(inited, b, k, st) : b \in Entities, k \in EventKinds,
                                               st \in StateValues}

\* the driver inside a client callback: the callback was attached (call c of
\* AttachCalls) after init, a poll reached the button, the engine recorded the
\* transition with state st and called the callback
InitInCallback(c, st) ==
    LET name == c[1]
        kind == c[2]
        cb == c[3]
        btn == drv_button_get_handle(name)
        inited == drv_button_init(ZeroEngine).eng
        e == Button_Emit(drv_button_attach_callback(inited, name, kind, cb).eng, btn, kind, st)
        j == CHOOSE i \in 1..Len(e.registry) : e.registry[i] = btn
    IN  /\ InitEngine(e)
        /\ pc = "poll"
        /\ idx = j
        /\ running = [btn |-> btn, kind |-> kind, cb |-> cb]
        /\ reads = [i \in 1..j |-> PinOf(e.registry[i])]
        /\ emitted = << <<btn, kind>> >>
        /\ invoked = <<[btn |-> btn, kind |-> kind, cb |-> cb, seen |-> Get_Button_Event(e, btn)]>>
        /\ ret = NoRet
        /\ bound = Rebind({}, name, kind, cb, 0)
        /\ nemits = 1
        /\ nattach = 1
        /\ life = "init"

\* the lifecycle call that left the driver in state e of ArgEngines
LifeOf(e) ==
    IF e = ZeroEngine THEN "none" ELSE IF e.registry = <<>> THEN "deinit" ELSE "init"

InitArgs ==
    /\ \/ (\E e \in ArgEngines : InitEngine(e) /\ life = LifeOf(e)) /\ InitRest
       \/ \E c \in AttachCalls, st \in EmitStates :
             c[2] \in EventKinds /\ c[3] \in ApiCallbacks /\ InitInCallback(c, st)
    /\ InitLed
    /\ writing = NoWrite

\* one call is made in the state drawn
NextArgs ==
    \/ ret = NoRet /\ DrvButtonGetHandle
    \/ ret = NoRet /\ DrvButtonGetState
    \/ ret = NoRet /\ DrvButtonGetEvent
    \/ ret = NoRet /\ DrvButtonAttachBadArgs
    \/ ret = NoRet /\ DrvButtonAttachCallback
    \/ ret = NoRet /\ DrvButtonAttachAnyKind

SpecArgs == InitArgs /\ [][NextArgs]_vars

Next ==
    \/ DrvButtonInit
    \/ DrvButtonDeinit
    \/ DrvButtonAttachCallback
    \/ DrvButtonProcess
    \/ CycleEmit
    \/ CallbackReturn
    \/ CycleRest

Spec == Init /\ [][Next]_vars

\* the poll runs on its caller's thread: Button_Process goes on while it has
\* entities left, and a callback that was called returns
PollStep == CycleEmit \/ CycleRest

SpecLive == Spec /\ WF_vars(PollStep) /\ WF_vars(CallbackReturn)

\* ------------------------------- attach in a thread of its own, no lock

\* the attach calls made from the other thread: the test's wildcard attach and
\* a client's attach to the press, both for key1
ConcCalls == {c \in AttachCalls : c[1] = "key1" /\ c[3] # "button_callback"
                                    /\ (c[2] = BUTTON_ALL_RIGGER \/ c[3] = "count_cb")}

\* drv_button_attach_callback is entered in a thread other than the polling
\* one: the handle is looked up and the arguments are tested
AttachBegin ==
    /\ writing = NoWrite
    /\ nattach < MaxAttach
    /\ \E c \in ConcCalls :
          LET btn == drv_button_get_handle(c[1])
          IN  IF btn # RT_NULL /\ c[3] # RT_NULL
              THEN /\ writing' = <<[name |-> c[1], btn |-> btn, kind |-> c[2], cb |-> c[3],
                                     left |-> Button_Attach_Stores(c[2], c[3]),
                                     old |-> CallBack_Function[btn]]>>
                   /\ UNCHANGED ret
              ELSE /\ ret' = [op |-> "attach", name |-> c[1], kind |-> c[2], cb |-> c[3],
                              val |-> RT_ERROR, again |-> FALSE, rejected |-> {}]
                   /\ UNCHANGED writing
    /\ UNCHANGED <<engine_vars, poll_vars, bound, budget_vars, life>>
    /\ UNCHANGED led_vars

\* Button_Attach makes its next store
AttachStore ==
    /\ writing # NoWrite
    /\ writing[1].left # <<>>
    /\ LET w == writing[1]
           st == Head(w.left)
       IN  /\ CallBack_Function' = [CallBack_Function EXCEPT ![w.btn][st[1]] = st[2]]
           /\ writing' = <<[w EXCEPT !.left = Tail(w.left)]>>
    /\ UNCHANGED <<registry, Name, Button_State, Button_Trigger_Event>>
    /\ UNCHANGED <<poll_vars, ret, bound, budget_vars, life>>
    /\ UNCHANGED led_vars

\* Button_Attach is through; drv_button_attach_callback returns RT_EOK
AttachReturn ==
    /\ writing # NoWrite
    /\ writing[1].left = <<>>
    /\ LET w == writing[1]
       IN  /\ ret' = [op |-> "attach", name |-> w.name, kind |-> w.kind, cb |-> w.cb,
                      val |-> RT_EOK, again |-> FALSE, rejected |-> {}]
           /\ bound' = Rebind(bound, w.name, w.kind, w.cb, IF pc = "poll" THEN idx ELSE 0)
    /\ nattach' = nattach + 1
    /\ writing' = NoWrite
    /\ UNCHANGED <<engine_vars, poll_vars, nemits, life>>
    /\ UNCHANGED led_vars

\* drv_button_full_test: the driver is initialised and the polling thread runs
InitConc ==
    /\ InitEngine(drv_button_init(ZeroEngine).eng)
    /\ InitRest
    /\ InitLed
    /\ life = "init"
    /\ writing = NoWrite

NextConc ==
    \/ AttachBegin
    \/ AttachStore
    \/ AttachReturn
    \/ DrvButtonProcess
    \/ CycleEmit
    \/ CallbackReturn
    \/ CycleRest

SpecConc == InitConc /\ [][NextConc]_vars

\* ------------------------------------------------ calls of the LED driver

DrvLedInit ==
    /\ LET r == drv_led_init(Led)
       IN  SetLed(r.led) /\ led_ret' = [NoLedRet EXCEPT !.op = "init", !.val = r.val]
    /\ led_set' = NoneSet
    /\ UNCHANGED button_vars

DrvLedDeinit ==
    /\ LET r == drv_led_deinit(Led)
       IN  SetLed(r.led) /\ led_ret' = [NoLedRet EXCEPT !.op = "deinit", !.val = r.val]
    /\ led_set' = NoneSet
    /\ UNCHANGED button_vars

DrvLedSetState ==
    /\ \E channel \in ChannelArgs, state \in StateArgs :
          LET r == drv_led_set_state(Led, channel, state)
          IN  /\ SetLed(r.led)
              /\ led_ret' = [NoLedRet EXCEPT !.op = "set_state", !.channel = channel,
                                             !.state = state, !.val = r.val]
              /\ led_set' = IF r.val = RT_EOK
                             THEN [states |-> [led_set.states EXCEPT ![channel] = <<state>>],
                                   color |-> <<>>]
                             ELSE led_set
    /\ UNCHANGED button_vars

DrvLedGetState ==
    /\ \E channel \in ChannelArgs :
          led_ret' = [NoLedRet EXCEPT !.op = "get_state", !.channel = channel,
                                      !.val = drv_led_get_state(Led, channel)]
    /\ UNCHANGED <<led_states, current_rgb_color, led_pin_mode, led_pin_level, led_set>>
    /\ UNCHANGED button_vars

DrvLedSetRgbColor ==
    /\ \E color \in ColorPtrs :
          LET r == drv_led_set_rgb_color(Led, color)
          IN  /\ SetLed(r.led)
              /\ led_ret' = [NoLedRet EXCEPT !.op = "set_rgb_color", !.color = color,
                                             !.val = r.val]
              /\ led_set' = IF r.val = RT_EOK
                             THEN [states |-> NoneSet.states, color |-> color]
                             ELSE led_set
    /\ UNCHANGED button_vars

\* the caller passes RT_NULL or the address of a colour variable of theirs
DrvLedGetRgbColor ==
    /\ \E color \in {NullColor, <<RGB_COLOR_BLACK>>} :
          LET r == drv_led_get_rgb_color(Led, color)
          IN  /\ SetLed(r.led)
              /\ led_ret' = [NoLedRet EXCEPT !.op = "get_rgb_color", !.color = color,
                                             !.val = r.val, !.out = r.out]
    /\ UNCHANGED led_set
    /\ UNCHANGED button_vars

DrvLedAllOff ==
    /\ LET r == drv_led_all_off(Led)
       IN  SetLed(r.led) /\ led_ret' = [NoLedRet EXCEPT !.op = "all_off", !.val = r.val]
    /\ led_set' = NoneSet
    /\ UNCHANGED button_vars

DrvLedAllOn ==
    /\ LET r == drv_led_all_on(Led)
       IN  SetLed(r.led) /\ led_ret' = [NoLedRet EXCEPT !.op = "all_on", !.val = r.val]
    /\ led_set' = NoneSet
    /\ UNCHANGED button_vars

\* one of the six colour presets
DrvLedSetPreset ==
    /\ \E p \in {"set_red", "set_green", "set_blue", "set_yellow", "set_magenta",
                  "set_cyan"} :
          LET r == CASE p = "set_red" -> drv_led_set_red(Led)
                     [] p = "set_green" -> drv_led_set_green(Led)
                     [] p = "set_blue" -> drv_led_set_blue(Led)
                     [] p = "set_yellow" -> drv_led_set_yellow(Led)
                     [] p = "set_magenta" -> drv_led_set_magenta(Led)
                     [] p = "set_cyan" -> drv_led_set_cyan(Led)
          IN  SetLed(r.led) /\ led_ret' = [NoLedRet EXCEPT !.op = p, !.val = r.val]
    /\ led_set' = NoneSet
    /\ UNCHANGED button_vars

InitLedSpec ==
    InitEngine(ZeroEngine) /\ InitRest /\ InitLed /\ life = "none" /\ writing = NoWrite

NextLed ==
    \/ DrvLedInit
    \/ DrvLedDeinit
    \/ DrvLedSetState
    \/ DrvLedGetState
    \/ DrvLedSetRgbColor
    \/ DrvLedGetRgbColor
    \/ DrvLedAllOff
    \/ DrvLedAllOn
    \/ DrvLedSetPreset

SpecLed == InitLedSpec /\ [][NextLed]_vars

\* ================================================================ claims

ConfiguredNames == {"key1", "key2", "key3", "key4", "key5", "key6"}

\* the step records a transition of kind k on entity b
Emits(b, k) ==
    /\ Len(emitted') = Len(emitted) + 1
    /\ emitted'[Len(emitted')] = <<b, k>>

\* the step calls callback cb, once, with entity b as its argument
Invokes(b, cb) ==
    /\ Len(invoked') = Len(invoked) + 1
    /\ invoked'[Len(invoked')].btn = b
    /\ invoked'[Len(invoked')].cb = cb
    /\ running'.btn = b
    /\ running'.cb = cb

\* the step calls some callback
InvokesAny == Len(invoked') > Len(invoked)

C1_Step ==
    /\ \A b \in Entities, r \in bound :
          (~r.wild /\ Name[b] = r.name /\ Emits(b, r.kind))
              => (pc = "poll" /\ pc' = "poll" /\ Invokes(b, r.cb))
    /\ InvokesAny => (Len(invoked') = Len(invoked) + 1 /\ Len(emitted') = Len(emitted) + 1)
    /\ (pc = "poll" /\ pc' = "idle") => running = NoCall

\* C1: once drv_button_attach_callback(N, K, cb) returned RT_EOK for a
\* configured name and a concrete kind, and until another attach on (N, K), a
\* wildcard attach on N, an init or a deinit, every transition of kind K the
\* engine emits on the entity named N calls cb, once, with that entity, inside
\* the poll: a callback is called only together with an emitted transition,
\* and the poll returns only when no callback is running.
C1_AttachedCallbackInvoked == [][C1_Step]_vars

C1_Witness ==
    /\ pc = "poll"
    /\ running.cb = "count_cb"
    /\ \E r \in bound : /\ ~r.wild /\ r.cb = "count_cb" /\ r.kind = running.kind
                        /\ Name[running.btn] = r.name

C2_Step ==
    \A b \in Entities, r \in bound :
        (r.prev \notin {"none", r.cb} /\ Name[b] = r.name /\ Emits(b, r.kind))
            => (Invokes(b, r.cb) /\ invoked'[Len(invoked')].cb # r.prev)

\* C2: after an attach on (N, K) that replaced the callback cb1 of an earlier
\* attach by a different cb2, a transition of kind K emitted on the entity
\* named N calls cb2 and does not call cb1.
C2_ReattachReplaces == [][C2_Step]_vars

C2_Witness ==
    /\ running # NoCall
    /\ \E r \in bound : /\ r.prev \notin {"none", r.cb} /\ r.kind = running.kind
                        /\ Name[running.btn] = r.name /\ running.cb = r.cb

C3_Step ==
    \A b \in Entities, r \in bound :
        (r.wild /\ Name[b] = r.name /\ Emits(b, r.kind)) => Invokes(b, r.cb)

\* C3: after drv_button_attach_callback(N, BUTTON_ALL_RIGGER, cb) returned
\* RT_EOK, the binding of each of the seven kinds of N is cb, and a transition
\* of any kind not rebound since, emitted on the entity named N, calls cb.
C3_WildcardBindsEveryKind ==
    [][/\ C3_Step
       /\ (ret'.op = "attach" /\ ret'.kind = BUTTON_ALL_RIGGER /\ ret'.val = RT_EOK)
             => \A k \in EventKinds : BoundCb(bound', ret'.name, k) = ret'.cb]_vars

C3_Witness ==
    /\ running.kind = "BUTTON_CONTINUOS_FREE"
    /\ running.cb = "test_button_callback"
    /\ \E r \in bound : r.wild /\ r.kind = running.kind /\ Name[running.btn] = r.name

\* count_cb was attached to the press kind of key1 and to nothing else, with
\* the six buttons registered
CountsKey1Presses ==
    /\ Len(registry) = BUTTON_COUNT
    /\ {<<r.name, r.kind>> : r \in {x \in bound : x.cb = "count_cb"}}
           = {<<"key1", "BUTTON_DOWM">>}

C8_Step ==
    CountsKey1Presses =>
        \A b \in Entities, k \in EventKinds :
            /\ (Emits(b, k) /\ Name[b] = "key1" /\ k = "BUTTON_DOWM") => Invokes(b, "count_cb")
            /\ (Emits(b, k) /\ ~(Name[b] = "key1" /\ k = "BUTTON_DOWM"))
                  => (~InvokesAny \/ invoked'[Len(invoked')].cb # "count_cb")
            /\ (InvokesAny /\ invoked'[Len(invoked')].cb = "count_cb")
                  => Emits(invoked'[Len(invoked')].btn, "BUTTON_DOWM")

\* C8: with the six buttons registered and count_cb attached to the press kind
\* of key1 only, each poll step calls count_cb exactly when it emits a press on
\* key1: never for a release or another kind on key1, never for another button.
C8_CountsOnlyKey1Presses == [][C8_Step]_vars

C8_Witness ==
    /\ CountsKey1Presses
    /\ Len(invoked) = 2
    /\ invoked[1].cb = "count_cb" /\ invoked[1].btn = "key1_btn"
    /\ invoked[2].cb = "button_callback" /\ invoked[2].btn = "key6_btn"

\* the static object behind each configured name
HandleOf(name) ==
    CASE name = "key1" -> "key1_btn"
      [] name = "key2" -> "key2_btn"
      [] name = "key3" -> "key3_btn"
      [] name = "key4" -> "key4_btn"
      [] name = "key5" -> "key5_btn"
      [] name = "key6" -> "key6_btn"

\* C4: an attach call with a NULL or unknown name, or with a NULL callback,
\* returns a failure code and leaves the event table of every entity as it
\* was, whatever the kind argument.
C4_BadAttachChangesNothing ==
    [][(ret'.op = "attach" /\ (ret'.name \notin ConfiguredNames \/ ret'.cb = RT_NULL))
          => (ret'.val # RT_EOK /\ CallBack_Function' = CallBack_Function)]_vars

C4_Witness ==
    /\ ret.op = "attach" /\ ret.name = "key1" /\ ret.cb = RT_NULL
    /\ ret.kind = BUTTON_ALL_RIGGER /\ ret.val = RT_ERROR
    /\ CallBack_Function["key1_btn"]["BUTTON_UP"] = "button_callback"

\* C5: drv_button_get_handle of a configured name returns an entity, the one
\* created under that name, and no other configured name gets the same entity.
C5_HandleOfEachName ==
    (ret.op = "get_handle" /\ ret.name \in ConfiguredNames)
        => /\ ret.val \in Entities
           /\ Name[ret.val] \in {ZERO, ret.name}
           /\ \A n \in ConfiguredNames \ {ret.name} : drv_button_get_handle(n) # ret.val

C5_Witness ==
    /\ ret.op = "get_handle" /\ ret.name = "key6" /\ ret.val = "key6_btn"
    /\ Name["key6_btn"] = "key6"

\* C6: drv_button_get_handle of a NULL name or of a name that is not
\* configured returns RT_NULL, whatever the state of the registry.
C6_UnknownNameNotFound ==
    (ret.op = "get_handle" /\ ret.name \notin ConfiguredNames) => ret.val = RT_NULL

C6_Witness ==
    /\ ret.op = "get_handle" /\ ret.name = "key7" /\ ret.val = RT_NULL
    /\ Len(registry) = BUTTON_COUNT

\* C7: drv_button_get_state and drv_button_get_event return NONE_TRIGGER for a
\* NULL or unknown name, and for a configured name the state / the event the
\* entity of that name holds.
C7_StateAndEventOfName ==
    /\ ret.op = "get_state" =>
          ret.val = IF ret.name \in ConfiguredNames
                    THEN Button_State[HandleOf(ret.name)] ELSE NONE_TRIGGER
    /\ ret.op = "get_event" =>
          ret.val = IF ret.name \in ConfiguredNames
                    THEN Button_Trigger_Event[HandleOf(ret.name)] ELSE NONE_TRIGGER

C7_Witness ==
    /\ ret.op = "get_event" /\ ret.name = "key3" /\ ret.val = "BUTTON_LONG_FREE"
    /\ Button_State["key3_btn"] = "BUTTON_UP"

\* the step is an attach call made while a callback runs
AttachInCallback == ret'.op = "attach" /\ running # NoCall /\ ret' # ret

\* the position of entity b in the registry, 0 when it is not registered
PositionOf(b) ==
    IF \E i \in 1..Len(registry) : registry[i] = b
    THEN CHOOSE i \in 1..Len(registry) : registry[i] = b
    ELSE 0

C9_Safe ==
    /\ AttachInCallback =>
          /\ UNCHANGED poll_vars
          /\ UNCHANGED <<registry, Name, Button_State, Button_Trigger_Event>>
    /\ InvokesAny =>
          \A i \in 1..Len(invoked) : invoked[i].btn # invoked'[Len(invoked')].btn

\* C9 as stated: an attach made inside a callback leaves the dispatch in
\* progress alone, and its binding is not used before the following poll.
C9_NextTickOnly ==
    [][/\ C9_Safe
       /\ \A b \in Entities, r \in bound :
             (Name[b] = r.name /\ Emits(b, r.kind)) => r.at = 0]_vars

\* C9, amended: an attach made inside a callback leaves the dispatch in
\* progress alone (the poll's position, the running callback, the recorded
\* transition; no entity is dispatched twice in one poll), and its binding is
\* used from the next transition on: in the same poll only for an entity
\* polled after the one whose callback attached, otherwise in a later poll.
C9_NextTransitionOnly ==
    [][/\ C9_Safe
       /\ \A b \in Entities, r \in bound :
             (Name[b] = r.name /\ Emits(b, r.kind) /\ r.at # 0)
                 => (PositionOf(b) > r.at /\ Invokes(b, r.cb))]_vars

C9_Witness ==
    /\ Len(invoked) = 2
    /\ invoked[1].cb = "count_cb" /\ invoked[1].btn = "key1_btn"
    /\ invoked[2].btn = "key6_btn"
    /\ \E r \in bound : /\ r.at = 1 /\ r.name = "key6" /\ r.kind = invoked[2].kind
                        /\ r.cb = invoked[2].cb

\* how often pin p was sampled in the poll
TimesRead(rd, p) == Cardinality({i \in 1..Len(rd) : rd[i] = p})

C11_DeinitIdempotent ==
    [][/\ ret'.op = "deinit" =>
             /\ ret'.val = RT_EOK
             /\ \A b \in Entities : ~SeqContains(registry', b)
       /\ (ret.op = "deinit" /\ ret'.op = "deinit") => UNCHANGED engine_vars]_vars

C11_Witness ==
    /\ ret.op = "deinit" /\ ret.again /\ ret.val = RT_EOK
    /\ registry = <<>>
    /\ Name["key6_btn"] = "key6"

\* the step is a call of one of the three read operations
ReadCall == ret' # ret /\ ret'.op \in {"get_state", "get_event", "get_handle"}

\* C12: drv_button_get_state, drv_button_get_event and drv_button_get_handle,
\* for every name argument, in every driver state and also when called from
\* inside a callback during a poll, leave the registry, every event table and
\* every entity's cached state and event as they were and call no callback.
C12_ReadsArePure ==
    [][ReadCall =>
          /\ UNCHANGED <<registry, Name, CallBack_Function, Button_State,
                         Button_Trigger_Event>>
          /\ UNCHANGED <<invoked, running, emitted, pc, idx>>]_vars

C12_Witness ==
    /\ ret.op = "get_event" /\ ret.name = "key6" /\ ret.val = "BUTTON_DOWM"
    /\ pc = "poll" /\ running.cb = "count_cb" /\ running.btn = "key6_btn"
    /\ Button_Trigger_Event["key6_btn"] = "BUTTON_DOWM"

\* C13: drv_button_attach_callback, drv_button_get_handle,
\* drv_button_get_state and drv_button_get_event never call a callback and
\* never change the cached state or event of an entity, whether they succeed
\* or fail and whether called between polls or from inside a callback: among
\* these operations and the poll, only the poll does either.
C13_OnlyPollWritesAndCalls ==
    [][(ret' # ret /\ ret'.op \in {"attach", "get_handle", "get_state", "get_event"})
          => /\ UNCHANGED <<Button_State, Button_Trigger_Event>>
             /\ UNCHANGED <<invoked, running>>]_vars

C13_Witness ==
    /\ ret.op = "attach" /\ ret.val = RT_EOK /\ ret.name = "key1"
    /\ pc = "poll" /\ running.cb = "count_cb" /\ running.btn = "key1_btn"
    /\ Button_Trigger_Event["key1_btn"] = "BUTTON_DOWM"
    /\ Len(invoked) = 1

\* no entity is registered: nothing was created yet, or the driver was just
\* deinitialised
NoneRegistered ==
    \/ registry = <<>>
    \/ \A b \in Entities : Name[b] = ZERO
    \/ ret.op = "deinit"

\* C14: drv_button_process called while no entity is registered (before any
\* drv_button_init, or after drv_button_deinit) returns at once: no poll step
\* follows, no level source is read, no callback is called, and the registry,
\* the event tables and the cached states and events are as they were.
C14_EmptyPollDoesNothing ==
    [][(ret'.op = "process" /\ NoneRegistered)
          => /\ pc = "idle" /\ pc' = "idle" /\ idx' = 0
             /\ reads' = <<>> /\ emitted' = <<>> /\ invoked' = <<>> /\ running' = NoCall
             /\ UNCHANGED engine_vars]_vars

C14_Witness ==
    /\ ret.op = "process" /\ pc = "idle" /\ registry = <<>> /\ reads = <<>>
    /\ Name["key1_btn"] = "key1"
    /\ CallBack_Function["key1_btn"]["BUTTON_DOWM"] = "count_cb"

\* C15 as stated: drv_button_init returns a failure code when the board did
\* not carry out the configuration of a pin, and RT_EOK only when every pin
\* was configured and every entity created.
C15_PinFailureSurfaced ==
    ret.op = "init" =>
        /\ ret.rejected # {} => ret.val # RT_EOK
        /\ ret.val = RT_EOK => (ret.rejected = {} /\ Len(registry) = BUTTON_COUNT)

led_data == <<led_states, current_rgb_color, led_pin_mode, led_pin_level>>

\* C17: when drv_led_set_state(ch, s) returns RT_EOK, ch is one of the three
\* channels, the recorded state of ch is s and the states of the other two
\* channels are as before the call; and as long as no other operation wrote
\* channel ch since, drv_led_get_state(ch) returns s.
C17_SetStateThenGetState ==
    [][/\ (led_ret'.op = "set_state" /\ led_ret'.val = RT_EOK) =>
             /\ led_ret'.channel \in Channels
             /\ led_states'[led_ret'.channel] = led_ret'.state
             /\ \A ch \in Channels \ {led_ret'.channel} : led_states'[ch] = led_states[ch]
       /\ (led_ret'.op = "get_state" /\ led_ret'.channel \in Channels) =>
             (led_set.states[led_ret'.channel] # <<>>
                 => led_ret'.val = led_set.states[led_ret'.channel][1])]_vars

C17_Witness ==
    /\ led_ret.op = "get_state" /\ led_ret.channel = LED_GREEN /\ led_ret.val = LED_ON
    /\ led_set.states[LED_GREEN] = <<LED_ON>>
    /\ led_set.states[LED_RED] = <<LED_OFF>>
    /\ led_states[LED_BLUE] = LED_ON /\ led_set.states[LED_BLUE] = <<>>

\* C18: drv_led_set_rgb_color(&c) returning RT_EOK stores c as it is, and as
\* long as nothing else wrote the colour since, drv_led_get_rgb_color returns
\* RT_EOK and gives the caller exactly c: the three components unchanged, not
\* 255 for every non-zero one.
C18_RgbColorRoundTrip ==
    [][/\ (led_ret'.op = "set_rgb_color" /\ led_ret'.val = RT_EOK) =>
             <<current_rgb_color'>> = led_ret'.color
       /\ (led_ret'.op = "get_rgb_color" /\ led_ret'.color # NullColor
              /\ led_set.color # <<>>) =>
             (led_ret'.val = RT_EOK /\ led_ret'.out = led_set.color)]_vars

C18_Witness ==
    /\ led_ret.op = "get_rgb_color" /\ led_ret.val = RT_EOK
    /\ led_ret.out = <<RGB(1, 128, 0)>>
    /\ led_set.color = <<RGB(1, 128, 0)>>
    /\ led_states[LED_RED] = LED_ON /\ led_states[LED_BLUE] = LED_OFF

\* C19: for a channel argument that is none of the three channels
\* (>= LED_CHANNEL_MAX), drv_led_set_state returns -RT_EINVAL and leaves the
\* channel states, the pins and the stored colour as they were, and
\* drv_led_get_state returns LED_OFF.
C19_InvalidChannel ==
    [][/\ (led_ret'.op = "set_state" /\ led_ret'.channel >= LED_CHANNEL_MAX) =>
             (led_ret'.val = RT_EINVAL /\ UNCHANGED led_data)
       /\ (led_ret'.op = "get_state" /\ led_ret'.channel >= LED_CHANNEL_MAX) =>
             (led_ret'.val = LED_OFF /\ UNCHANGED led_data)]_vars

C19_Witness ==
    /\ led_ret.op = "set_state" /\ led_ret.channel = LED_CHANNEL_MAX
    /\ led_ret.state = LED_OFF /\ led_ret.val = RT_EINVAL
    /\ \A ch \in Channels : led_states[ch] = LED_ON /\ led_pin_level[ch] = PIN_LOW
    /\ current_rgb_color = RGB(1, 128, 255)

\* C20: drv_led_set_rgb_color(RT_NULL) and drv_led_get_rgb_color(RT_NULL)
\* return -RT_EINVAL and leave the channel states, the pins and the stored
\* colour as they were.
C20_NullColorPointer ==
    [][(led_ret'.op \in {"set_rgb_color", "get_rgb_color"} /\ led_ret'.color = NullColor)
          => (led_ret'.val = RT_EINVAL /\ UNCHANGED led_data)]_vars

C20_Witness ==
    /\ led_ret.op = "get_rgb_color" /\ led_ret.color = NullColor
    /\ led_ret.val = RT_EINVAL
    /\ current_rgb_color = RGB(128, 0, 1)
    /\ led_states[LED_RED] = LED_ON /\ led_pin_level[LED_GREEN] = PIN_HIGH

\* the component of colour c that belongs to channel ch
Component(c, ch) ==
    CASE ch = LED_RED -> c.red
      [] ch = LED_GREEN -> c.green
      [] ch = LED_BLUE -> c.blue

\* the channels each preset is to light
PresetChannels(p) ==
    CASE p = "set_red" -> {LED_RED}
      [] p = "set_green" -> {LED_GREEN}
      [] p = "set_blue" -> {LED_BLUE}
      [] p = "set_yellow" -> {LED_RED, LED_GREEN}
      [] p = "set_magenta" -> {LED_RED, LED_BLUE}
      [] p = "set_cyan" -> {LED_GREEN, LED_BLUE}

Presets == {"set_red", "set_green", "set_blue", "set_yellow", "set_magenta", "set_cyan"}

\* C21: after drv_led_init, drv_led_all_off or drv_led_deinit, from whatever
\* state, the three channels report LED_OFF and the stored colour is (0,0,0);
\* after drv_led_all_on they report LED_ON and the colour is (255,255,255);
\* after a colour preset exactly the channels of that colour report LED_ON
\* (red; green; blue; yellow = red + green; magenta = red + blue; cyan = green
\* + blue), the stored colour having 255 for these and 0 for the others.
C21_OffOnAndPresets ==
    [][/\ led_ret'.op \in {"init", "all_off", "deinit"} =>
             /\ \A ch \in Channels : drv_led_get_state(Led', ch) = LED_OFF
             /\ current_rgb_color' = RGB(0, 0, 0)
       /\ led_ret'.op = "all_on" =>
             /\ \A ch \in Channels : drv_led_get_state(Led', ch) = LED_ON
             /\ current_rgb_color' = RGB(255, 255, 255)
       /\ led_ret'.op \in Presets =>
             \A ch \in Channels :
                 /\ drv_led_get_state(Led', ch)
                       = IF ch \in PresetChannels(led_ret'.op) THEN LED_ON ELSE LED_OFF
                 /\ Component(current_rgb_color', ch)
                       = IF ch \in PresetChannels(led_ret'.op) THEN 255 ELSE 0]_vars

C21_Witness ==
    /\ led_ret.op = "set_magenta" /\ led_ret.val = RT_EOK
    /\ led_states[LED_RED] = LED_ON /\ led_states[LED_GREEN] = LED_OFF
    /\ led_states[LED_BLUE] = LED_ON
    /\ current_rgb_color = RGB(255, 0, 255)
    /\ led_pin_mode[LED_RED] = PIN_MODE_OUTPUT_OD

\* drv_led_init ran: the LED pins are configured
LedInited == \A ch \in Channels : led_pin_mode[ch] = PIN_MODE_OUTPUT_OD

\* C30: in every state reached after drv_led_init, through whatever sequence
\* of LED calls, each channel's recorded state is LED_ON exactly when the
\* component of the stored colour that belongs to it is greater than 0.
C30_StateMatchesColour ==
    LedInited =>
        \A ch \in Channels :
            (led_states[ch] = LED_ON) <=> (Component(current_rgb_color, ch) > 0)

C30_Witness ==
    /\ LedInited
    /\ led_ret.op = "set_state" /\ led_ret.channel = LED_BLUE /\ led_ret.val = RT_EOK
    /\ current_rgb_color = RGB(1, 0, 255)
    /\ led_states[LED_RED] = LED_ON /\ led_states[LED_GREEN] = LED_OFF
    /\ led_states[LED_BLUE] = LED_ON

\* the number of key n, 0 for an entity that is none of the six
KeyNumber(b) ==
    IF \E i \in 1..BUTTON_COUNT : HandleOf(KeyNames[i]) = b
    THEN CHOOSE i \in 1..BUTTON_COUNT : HandleOf(KeyNames[i]) = b
    ELSE 0

C23_CallbackSeesItsEvent ==
    running # NoCall =>
        /\ running.kind \in EventKinds
        /\ drv_button_get_event(Engine, Name[running.btn]) = running.kind
        /\ invoked[Len(invoked)].btn = running.btn
        /\ invoked[Len(invoked)].seen = running.kind

C23_Witness ==
    /\ running.cb = "count_cb" /\ running.btn = "key6_btn"
    /\ running.kind = "BUTTON_DOWM"
    /\ Button_Trigger_Event["key6_btn"] = "BUTTON_DOWM"
    /\ Button_Trigger_Event["key1_btn"] = "BUTTON_LONG"
    /\ Len(invoked) = 2

\* C24: right after any call of drv_button_init every kind of every one of
\* the six buttons is bound to the driver's logging callback, whatever was
\* attached before; and from then on a transition on a (button, kind) that no
\* drv_button_attach_callback bound since calls the logging callback.
C24_InitRebindsDefault ==
    [][/\ ret'.op = "init" =>
             \A b \in Entities, k \in EventKinds :
                 CallBack_Function'[b][k] = "button_callback"
       /\ \A b \in Entities, k \in EventKinds :
             (Emits(b, k) /\ BoundCb(bound, Name[b], k) = "none")
                 => Invokes(b, "button_callback")]_vars

C24_Witness ==
    /\ running.cb = "button_callback" /\ running.btn = "key1_btn"
    /\ running.kind = "BUTTON_DOWM"
    /\ nattach = MaxAttach /\ bound = {}

\* C25: after drv_button_deinit and until the next drv_button_init no step
\* calls a callback and no poll finds an entity to visit, also when
\* drv_button_attach_callback was called, and returned RT_EOK, in between.
C25_NoCallbackAfterDeinit ==
    [][life = "deinit" =>
          /\ ~InvokesAny /\ running' = NoCall /\ emitted' = <<>>
          /\ pc' = "idle"
          /\ ret'.op = "process" => reads' = <<>>]_vars

C25_Witness ==
    /\ life = "deinit" /\ ret.op = "process" /\ pc = "idle"
    /\ bound # {} /\ CallBack_Function["key1_btn"]["BUTTON_DOWM"] = "count_cb"
    /\ Name["key1_btn"] = "key1"

\* C26: the handle of a name is the same whichever of init and deinit ran
\* last or neither, and an attach with a configured name and a callback
\* returns RT_EOK in each of the three lifecycle states
C26_LifecycleIndependent ==
    /\ life \in {"none", "init", "deinit"}
    /\ (ret.op = "get_handle" /\ ret.name \in ConfiguredNames)
          => ret.val = HandleOf(ret.name)
    /\ (ret.op = "get_handle" /\ ret.name \notin ConfiguredNames)
          => ret.val = RT_NULL
    /\ (ret.op = "attach" /\ ret.name \in ConfiguredNames /\ ret.cb # RT_NULL)
          => ret.val = RT_EOK

C26_Witness ==
    /\ life = "none" /\ registry = <<>>
    /\ ret.op = "attach" /\ ret.name = "key6" /\ ret.val = RT_EOK
    /\ CallBack_Function["key6_btn"]["BUTTON_DOWM"] = "count_cb"

\* C27: a successful attach for name N and a concrete kind K changes the
\* slot (N, K) only; a successful wildcard attach changes slots of N only;
\* the registry, the names and the cached states and events stay
C27_AttachFrame ==
    [][(ret'.op = "attach" /\ ret'.val = RT_EOK /\ ret' # ret) =>
          /\ \A b \in Entities, k \in EventKinds :
                (b # HandleOf(ret'.name) \/ (ret'.kind \in EventKinds /\ k # ret'.kind))
                    => CallBack_Function'[b][k] = CallBack_Function[b][k]
          /\ UNCHANGED <<registry, Name, Button_State, Button_Trigger_Event>>]_vars

C27_Witness ==
    /\ ret.op = "attach" /\ ret.val = RT_EOK
    /\ ret.name = "key1" /\ ret.kind = "BUTTON_DOWM" /\ ret.cb = "count_cb"
    /\ CallBack_Function["key1_btn"]["BUTTON_DOWM"] = "count_cb"
    /\ CallBack_Function["key1_btn"]["BUTTON_UP"] = "test_button_callback"
    /\ CallBack_Function["key6_btn"]["BUTTON_DOWM"] = "button_callback"

\* C29: attach does not look at the event argument: with a configured name
\* and a callback it returns RT_EOK and hands the request to the engine's
\* attach for every value, NONE_TRIGGER included
C29_EventKindNotValidated ==
    [][(ret'.op = "attach" /\ ret' # ret /\ ret'.name \in ConfiguredNames
           /\ ret'.cb # RT_NULL) =>
          /\ ret'.val = RT_EOK
          /\ Engine' = Button_Attach(Engine, HandleOf(ret'.name), ret'.kind, ret'.cb)]_vars

C29_Witness ==
    /\ ret.op = "attach" /\ ret.kind = NONE_TRIGGER /\ ret.val = RT_EOK
    /\ ret.name = "key1" /\ ret.cb = "count_cb" /\ life = "init"

C31_StateMirrorsPin ==
    /\ [](LedInited =>
             \A ch \in Channels :
                 /\ (led_pin_level[ch] = PIN_LOW) <=> (led_states[ch] = LED_ON)
                 /\ (led_pin_level[ch] = PIN_HIGH) <=> (led_states[ch] = LED_OFF))
    /\ [][\A ch \in Channels :
             /\ led_states'[ch] # led_states[ch] => led_pin_level'[ch] # led_pin_level[ch]
             /\ (LedInited /\ led_pin_level'[ch] # led_pin_level[ch])
                    => led_states'[ch] # led_states[ch]]_vars

C31_Witness ==
    /\ LedInited
    /\ led_ret.op = "set_state" /\ led_ret.channel = LED_RED /\ led_ret.state = LED_OFF
    /\ led_ret.val = RT_EOK
    /\ led_pin_level = [ch \in Channels |-> IF ch = LED_RED THEN PIN_HIGH ELSE PIN_LOW]
    /\ led_states = [ch \in Channels |-> IF ch = LED_RED THEN LED_OFF ELSE LED_ON]

====
